---- MODULE Spec2Model ----
(***************************************************************************)
(* Model of src/app.py: a Streamlit script that, on every render cycle,    *)
(* fetches two tickers through a TTL cache, resolves current price and     *)
(* previous close, compares the two instruments and projects each price    *)
(* with a degree-1 least-squares fit.                                      *)
(*                                                                         *)
(* Money is counted in cents (0.01 currency units), so the 0.01 price      *)
(* tolerance is 1.  Percentages and projected prices are exact rationals   *)
(* <<n, d>> in lowest terms with d > 0; the code's double-precision        *)
(* rounding is not modelled.  Dates are proleptic Gregorian ordinals, as   *)
(* pd.Timestamp.toordinal gives them.                                      *)
(***************************************************************************)
EXTENDS Integers, Sequences, FiniteSets, TLC

VARIABLES pc, i, stock_data_store, errors, warnings, columns, battle,
          cache, now, trigger, results, cycles,
          projHist, projTarget, projResult, projDone

appVars == <<pc, i, stock_data_store, errors, warnings, columns, battle,
             cache, now, trigger, results, cycles>>
projVars == <<projHist, projTarget, projResult, projDone>>
vars == <<pc, i, stock_data_store, errors, warnings, columns, battle,
          cache, now, trigger, results, cycles,
          projHist, projTarget, projResult, projDone>>

-----------------------------------------------------------------------------
(* Bounds of the model *)

\* render cycles in one behaviour
MaxCycles == 3
\* half-TTL clock steps in one behaviour
MaxTicks == 2
\* days between the last sample of a fetched series and TARGET_DATE
Horizon == 183

-----------------------------------------------------------------------------
(* Configuration, lines 7-12 and 15 *)

\* pd.to_datetime("2026-07-04").toordinal()
TARGET_DATE == 739801

STOCKS == << [ticker |-> "AVGO", start_price |-> 29430, name |-> "Broadcom Inc."],
             [ticker |-> "VTSAX", start_price |-> 15264, name |-> "Vanguard Total Stock Market"] >>

\* @st.cache_data(ttl=43200), seconds
TTL == 43200

TickSeconds == TTL \div 2

-----------------------------------------------------------------------------
(* Exact rational arithmetic standing for the code's float arithmetic *)

Abs(x) == IF x < 0 THEN -x ELSE x

RECURSIVE GCD(_, _)
GCD(a, b) == IF b = 0 THEN a ELSE GCD(b, a % b)

Norm(n, d) ==
    LET g == GCD(Abs(n), Abs(d))
        s == IF d < 0 THEN -1 ELSE 1
    IN  << (s * n) \div g, (s * d) \div g >>

Zero == <<0, 1>>
Int2R(n) == <<n, 1>>
\* sums over the least common denominator
LCM(a, b) == (a \div GCD(a, b)) * b
RAdd(r, s) ==
    LET l == LCM(r[2], s[2])
    IN  Norm(r[1] * (l \div r[2]) + s[1] * (l \div s[2]), l)
RSub(r, s) == RAdd(r, <<-s[1], s[2]>>)
RMul(r, s) ==
    LET a == Norm(r[1], s[2])
        b == Norm(s[1], r[2])
    IN  Norm(a[1] * b[1], a[2] * b[2])
RDiv(r, s) == RMul(r, <<s[2], s[1]>>)
RAbs(r) == <<Abs(r[1]), r[2]>>
RLess(r, s) == r[1] * s[2] < s[1] * r[2]

\* floor of a rational
RFloor(r) == r[1] \div r[2]

\* f"{x:.0f}" of a rational: the nearest integer, ties to even
RoundHalfEven(r) ==
    LET f == RFloor(r)
        rem == r[1] - f * r[2]
    IN  IF 2 * rem < r[2] THEN f
        ELSE IF 2 * rem > r[2] THEN f + 1
        ELSE IF f % 2 = 0 THEN f ELSE f + 1

\* f"{x:.2f}" of a price in cents: whole cents
FmtCents(r) == RoundHalfEven(r)
\* f"{x:.2f}" of a percentage: hundredths of a percentage point
FmtPct2(r) == RoundHalfEven(RMul(r, Int2R(100)))

\* the tolerance 0.01 of the percentage comparison, line 172
PctTolerance == <<1, 100>>

-----------------------------------------------------------------------------
(* What the price-data provider (yfinance) can answer for a ticker *)

\* a Python value that is a number or None
Num(v) == [none |-> FALSE, val |-> v]
None == [none |-> TRUE, val |-> 0]

\* stock.history(period="2y"): consecutive daily samples ending Horizon days
\* before TARGET_DATE
MkHist(closes) ==
    [k \in 1..Len(closes) |->
        [date |-> TARGET_DATE - Horizon - (Len(closes) - k), close |-> closes[k]]]

ClosesOf(k) ==
    IF k = 1 THEN { <<>>, <<1000>>, <<99990, 100000>> }
    ELSE { <<>>, <<1000>>, <<14997, 15000>> }

\* stock.fast_info['last_price']: raises, or is None, or is a number
FastInfoOf(k) ==
    { [kind |-> "raise", val |-> 0], [kind |-> "none", val |-> 0] } \cup
    { [kind |-> "price", val |-> v] :
        v \in IF k = 1 THEN {0, 100000, 100001, 100009, 100010, 100011}
              ELSE {0, 15000, 15003} }

ErrTexts == { "HTTP Error 404", "Connection timed out" }

ProviderResponses(k) ==
    { [raises |-> TRUE, text |-> t, hist |-> <<>>, fast |-> [kind |-> "raise", val |-> 0]] :
        t \in ErrTexts } \cup
    { [raises |-> FALSE, text |-> "", hist |-> MkHist(c), fast |-> f] :
        c \in ClosesOf(k), f \in FastInfoOf(k) }

-----------------------------------------------------------------------------
(* fetch_stock_data, lines 16-33: the body behind the cache *)

fetch_stock_data(p) ==
    IF p.raises
    THEN [raised |-> TRUE, text |-> p.text, hist |-> <<>>, latest_price |-> None]
    ELSE [raised |-> FALSE, text |-> "", hist |-> p.hist,
          latest_price |->
             IF p.fast.kind = "price" THEN Num(p.fast.val)
             ELSE IF p.fast.kind = "none" THEN None
             ELSE IF Len(p.hist) > 0 THEN Num(p.hist[Len(p.hist)].close)
             ELSE Num(0)]

-----------------------------------------------------------------------------
(* get_projection, lines 35-46 *)

RECURSIVE Sum(_)
Sum(s) == IF Len(s) = 0 THEN 0 ELSE s[1] + Sum(Tail(s))

\* np.polyfit(x, y, 1): the least-squares line through the samples.  The
\* line is carried as <<slope, value at the first sample's ordinal x0>>:
\* the sums are taken with abscissae relative to x0 (the fit does not depend
\* on the origin), and the intercept at ordinal 0, value - slope * x0, is not
\* formed.  With a single sample the system is rank deficient and polyfit
\* returns the minimum-norm solution of its column-scaled system, slope
\* y/(2x) and intercept y/2: a line through the sample with slope y/(2 * x0).
polyfit(hist) ==
    LET n == Len(hist)
        x0 == hist[1].date
        xs == [k \in 1..n |-> hist[k].date - x0]
        ys == [k \in 1..n |-> hist[k].close]
        Sx == Sum(xs)
        Sy == Sum(ys)
        Sxy == Sum([k \in 1..n |-> xs[k] * ys[k]])
        Sxx == Sum([k \in 1..n |-> xs[k] * xs[k]])
        slope == Norm(n * Sxy - Sx * Sy, n * Sxx - Sx * Sx)
    IN  IF n = 1
        THEN << Norm(ys[1], 2 * x0), Int2R(ys[1]) >>
        ELSE << slope, RDiv(RSub(Int2R(Sy), RMul(slope, Int2R(Sx))), Int2R(n)) >>

\* line 45 without the intercept
get_projection_NoIntercept(hist, target_ordinal) ==
    IF Len(hist) = 0 THEN Zero
    ELSE RMul(polyfit(hist)[1], Int2R(target_ordinal))

\* slope * target_ordinal + intercept, evaluated from the first sample's ordinal
get_projection(hist, target_ordinal) ==
    IF Len(hist) = 0 THEN Zero
    ELSE LET fit == polyfit(hist)
         IN  RAdd(RMul(fit[1], Int2R(target_ordinal - hist[1].date)), fit[2])

-----------------------------------------------------------------------------
(* The fetch loop body, lines 60-106 *)

\* the outcome of one loop iteration: an exception caught at line 105, or the
\* records appended at line 94 (none or one)
Raise(text) == [raised |-> TRUE, text |-> text, recs |-> <<>>]
Done(recs) == [raised |-> FALSE, text |-> "", recs |-> recs]

TypeErrorText == "'>' not supported between instances of 'NoneType' and 'int'"
IndexErrorText == "single positional indexer is out-of-bounds"
ZeroDivisionText == "float division by zero"

\* hist['Close'].iloc[k] for a negative position k
Iloc(hist, k) ==
    LET idx == Len(hist) + 1 + k
    IN  IF idx >= 1 /\ idx <= Len(hist)
        THEN [raised |-> FALSE, val |-> hist[idx].close]
        ELSE [raised |-> TRUE, val |-> 0]

\* line 64 with a numeric current_price
Resolvable_NoEmptyCheck(hist, current_price) == current_price.val > 0
Resolvable_NoPriceCheck(hist, current_price) == Len(hist) > 0
Resolvable(hist, current_price) == Len(hist) > 0 /\ current_price.val > 0

\* line 69
HasTwoSamples_OffByOne(hist) == Len(hist) >= 1
HasTwoSamples(hist) == Len(hist) >= 2

\* lines 69-85; current_price in cents, the tolerance 0.01 is 1
PrevClose(hist, current_price) ==
    IF HasTwoSamples(hist)
    THEN LET second == Iloc(hist, -2)
             last_hist_price == Iloc(hist, -1)
         IN  IF second.raised \/ last_hist_price.raised
             THEN [raised |-> TRUE, val |-> 0]
             ELSE IF Abs(current_price - last_hist_price.val) > 1
                  THEN [raised |-> FALSE, val |-> last_hist_price.val]
                  ELSE [raised |-> FALSE, val |-> second.val]
    ELSE [raised |-> FALSE, val |-> current_price]

\* lines 88-104
MakeRecord(stock_info, hist, current_price, prev_close) ==
    [ticker |-> stock_info.ticker,
     name |-> stock_info.name,
     start_price |-> stock_info.start_price,
     current_price |-> current_price,
     prev_close |-> prev_close,
     total_gain_pct |->
        RMul(Norm(current_price - stock_info.start_price, stock_info.start_price),
             Int2R(100)),
     daily_change_amt |-> current_price - prev_close,
     daily_change_pct |->
        RMul(Norm(current_price - prev_close, prev_close), Int2R(100)),
     history |-> hist]

\* r is what fetch_stock_data returned or raised at line 62
LoopBody(stock_info, r) ==
    IF r.raised THEN Raise(r.text)
    ELSE IF Len(r.hist) > 0 /\ r.latest_price.none THEN Raise(TypeErrorText)
    ELSE IF ~Resolvable(r.hist, r.latest_price) THEN Done(<<>>)
    ELSE LET prev == PrevClose(r.hist, r.latest_price.val)
         IN  IF prev.raised THEN Raise(IndexErrorText)
             ELSE IF prev.val = 0 THEN Raise(ZeroDivisionText)
             ELSE Done(<< MakeRecord(stock_info, r.hist, r.latest_price.val, prev.val) >>)

\* the try is inside the for: the loop goes on to the next ticker whatever
\* the iteration did
AfterIteration_AbortOnError(k, out) == IF out.raised THEN Len(STOCKS) + 1 ELSE k + 1
AfterIteration(k, out) == k + 1

-----------------------------------------------------------------------------
(* Display and compare, lines 109-180 *)

\* lines 109 and 179: where the script goes after the loop
AfterLoop_NoWarning(store) == IF Len(store) = 2 THEN "match" ELSE "button"
AfterLoop(store) == IF Len(store) = 2 THEN "match" ELSE "warn"

\* lines 116 and 119
MatchPrice_OwnGain(self, other) ==
    RMul(Int2R(self.start_price),
         RAdd(Int2R(1), RDiv(self.total_gain_pct, Int2R(100))))
MatchPrice(self, other) ==
    RMul(Int2R(self.start_price),
         RAdd(Int2R(1), RDiv(other.total_gain_pct, Int2R(100))))

WithMatch(self, other) ==
    self @@ [match_price |-> MatchPrice(self, other), other_ticker |-> other.ticker]

\* lines 125-164: one column.  The "Est. Gain" line (160, 164) is a display of
\* projected_val and is not carried.
Column(data) ==
    LET diff == RSub(data.match_price, Int2R(data.current_price))
        projected_val == get_projection(data.history, TARGET_DATE)
    IN  [ticker |-> data.ticker,
         name |-> data.name,
         current_price |-> data.current_price,
         total_gain |-> FmtPct2(data.total_gain_pct),
         daily_color |-> IF data.daily_change_pct[1] >= 0 THEN "green" ELSE "red",
         daily_amt |-> data.daily_change_amt,
         daily_pct |-> FmtPct2(data.daily_change_pct),
         other_ticker |-> data.other_ticker,
         match_msg |-> IF RLess(RAbs(diff), Int2R(1)) THEN "dead heat"
                       ELSE IF diff[1] > 0 THEN "need to hit"
                       ELSE "already beating",
         match_price |-> FmtCents(data.match_price),
         history_len |-> Len(data.history),
         projected_val |-> projected_val,
         est_value |-> FmtCents(projected_val)]

\* line 172
IsDraw_Inclusive(daily_diff) == ~RLess(PctTolerance, RAbs(daily_diff))
IsDraw(daily_diff) == RLess(RAbs(daily_diff), PctTolerance)

\* the margin handed to the format at lines 175 and 177
Margin_Signed(daily_diff) == daily_diff
Margin(daily_diff) == IF daily_diff[1] > 0 THEN daily_diff ELSE RAbs(daily_diff)

\* lines 170-177
BattleReport(stock_a, stock_b) ==
    LET daily_diff == RSub(stock_a.daily_change_pct, stock_b.daily_change_pct)
    IN  IF IsDraw(daily_diff)
        THEN [kind |-> "draw", winner |-> "", loser |-> "",
              margin |-> Zero, shown |-> 0]
        ELSE IF daily_diff[1] > 0
        THEN [kind |-> "won", winner |-> stock_a.ticker, loser |-> stock_b.ticker,
              margin |-> Margin(daily_diff), shown |-> FmtPct2(Margin(daily_diff))]
        ELSE [kind |-> "won", winner |-> stock_b.ticker, loser |-> stock_a.ticker,
              margin |-> Margin(daily_diff), shown |-> FmtPct2(Margin(daily_diff))]

-----------------------------------------------------------------------------
(* The cache of st.cache_data, lines 15 and 186 *)

NoCache == [t \in {} |-> 0]

CacheHit(c, t, time) == t \in DOMAIN c /\ time - c[t].stamp < TTL

CachePut(c, t, e) == [x \in DOMAIN c \cup {t} |-> IF x = t THEN e ELSE c[x]]
CacheDrop(c, t) == [x \in DOMAIN c \ {t} |-> c[x]]

\* st.cache_data.clear()
ClearCache_KeepsEntries(c) == c
ClearCache(c) == NoCache

-----------------------------------------------------------------------------
(* The script as a state machine: one render cycle after another *)

\* the page is rendered from scratch on every run of the script
StartCycle(trig) ==
    /\ pc' = "fetch"
    /\ i' = 1
    /\ stock_data_store' = <<>>
    /\ errors' = <<>>
    /\ warnings' = 0
    /\ columns' = <<>>
    /\ battle' = <<>>
    /\ results' = <<>>
    /\ trigger' = trig
    /\ cycles' = cycles + 1

Init ==
    /\ pc = "fetch"
    /\ i = 1
    /\ stock_data_store = <<>>
    /\ errors = <<>>
    /\ warnings = 0
    /\ columns = <<>>
    /\ battle = <<>>
    /\ results = <<>>
    /\ trigger = "load"
    /\ cycles = 1
    /\ cache = NoCache
    /\ now = 0
    /\ projHist = <<>>
    /\ projTarget = TARGET_DATE
    /\ projResult = Zero
    /\ projDone = FALSE

\* the rest of one loop iteration once line 62 has returned or raised r
Iterate(served, r) ==
    LET stock_info == STOCKS[i]
        out == LoopBody(stock_info, r)
        next_i == AfterIteration(i, out)
        store == stock_data_store \o out.recs
    IN  /\ stock_data_store' = store
        /\ errors' = IF out.raised
                     THEN Append(errors, [ticker |-> stock_info.ticker, text |-> out.text])
                     ELSE errors
        /\ results' = Append(results, [index |-> i, ticker |-> stock_info.ticker,
                                       served |-> served, fetched |-> r, out |-> out])
        /\ i' = next_i
        /\ pc' = IF next_i > Len(STOCKS) THEN AfterLoop(store) ELSE "fetch"
        /\ UNCHANGED <<warnings, columns, battle, now, trigger, cycles>>
        /\ UNCHANGED projVars

\* line 62, the cached value is returned: the provider is not contacted
FetchFromCache ==
    /\ pc = "fetch"
    /\ i <= Len(STOCKS)
    /\ CacheHit(cache, STOCKS[i].ticker, now)
    /\ Iterate("cache", cache[STOCKS[i].ticker].value)
    /\ UNCHANGED cache

\* line 62, no live entry: fetch_stock_data runs, and its return value (not an
\* exception) is stored
FetchFromProvider ==
    /\ pc = "fetch"
    /\ i <= Len(STOCKS)
    /\ ~CacheHit(cache, STOCKS[i].ticker, now)
    /\ \E p \in ProviderResponses(i) :
          LET r == fetch_stock_data(p)
          IN  /\ Iterate("provider", r)
              /\ cache' = IF r.raised
                          THEN CacheDrop(cache, STOCKS[i].ticker)
                          ELSE CachePut(cache, STOCKS[i].ticker,
                                        [value |-> r, stamp |-> now])

\* lines 112-120
MatchPrices ==
    /\ pc = "match"
    /\ LET stock_a == WithMatch(stock_data_store[1], stock_data_store[2])
           stock_b == WithMatch(stock_data_store[2], stock_a)
       IN  stock_data_store' = << stock_a, stock_b >>
    /\ pc' = "render"
    /\ UNCHANGED <<i, errors, warnings, columns, battle, cache, now, trigger,
                   results, cycles>>
    /\ UNCHANGED projVars

\* lines 123-164, one pass of the render loop
RenderColumn ==
    /\ pc = "render"
    /\ columns' = Append(columns, Column(stock_data_store[Len(columns) + 1]))
    /\ pc' = IF Len(columns) + 1 = Len(stock_data_store) THEN "battle" ELSE "render"
    /\ UNCHANGED <<i, stock_data_store, errors, warnings, battle, cache, now,
                   trigger, results, cycles>>
    /\ UNCHANGED projVars

\* lines 166-177
Battle ==
    /\ pc = "battle"
    /\ battle' = Append(battle, BattleReport(stock_data_store[1], stock_data_store[2]))
    /\ pc' = "button"
    /\ UNCHANGED <<i, stock_data_store, errors, warnings, columns, cache, now,
                   trigger, results, cycles>>
    /\ UNCHANGED projVars

\* lines 179-180
Warn ==
    /\ pc = "warn"
    /\ warnings' = warnings + 1
    /\ pc' = "button"
    /\ UNCHANGED <<i, stock_data_store, errors, columns, battle, cache, now,
                   trigger, results, cycles>>
    /\ UNCHANGED projVars

\* lines 185-187: st.button is True in the run the click started; the cache is
\* cleared and st.rerun() starts the script again
Button ==
    /\ pc = "button"
    /\ IF trigger = "click"
       THEN /\ cache' = ClearCache(cache)
            /\ StartCycle("rerun")
            /\ UNCHANGED now
       ELSE /\ pc' = "idle"
            /\ UNCHANGED <<i, stock_data_store, errors, warnings, columns, battle,
                           cache, now, trigger, results, cycles>>
    /\ UNCHANGED projVars

\* the user presses "Force Refresh Data": the script runs again, the button
\* reading True at line 185
ClickRefresh ==
    /\ pc = "idle"
    /\ cycles + 2 <= MaxCycles
    /\ StartCycle("click")
    /\ UNCHANGED <<cache, now>>
    /\ UNCHANGED projVars

\* any other run of the script: a page load or another session
Reload ==
    /\ pc = "idle"
    /\ cycles + 1 <= MaxCycles
    /\ StartCycle("load")
    /\ UNCHANGED <<cache, now>>
    /\ UNCHANGED projVars

\* time passes between runs
Tick ==
    /\ pc = "idle"
    /\ now + TickSeconds <= MaxTicks * TickSeconds
    /\ now' = now + TickSeconds
    /\ UNCHANGED <<pc, i, stock_data_store, errors, warnings, columns, battle,
                   cache, trigger, results, cycles>>
    /\ UNCHANGED projVars

Next ==
    \/ FetchFromCache
    \/ FetchFromProvider
    \/ MatchPrices
    \/ RenderColumn
    \/ Battle
    \/ Warn
    \/ Button
    \/ ClickRefresh
    \/ Reload
    \/ Tick

Spec == Init /\ [][Next]_vars

-----------------------------------------------------------------------------
(* get_projection on its own: any series of up to ProjMaxLen samples on      *)
(* distinct days of a window, any of two target dates.  get_projection is    *)
(* indifferent to the currency unit; closes here are whole units.            *)

\* samples in a series
ProjMaxLen == 3
\* days in the window, less one
ProjSpan == 4
\* prices a sample can close at: ProjLow .. ProjLow + ProjRange
ProjLow == 10
ProjRange == 3

ProjDays == (TARGET_DATE - Horizon - ProjSpan) .. (TARGET_DATE - Horizon)
ProjCloses == ProjLow .. (ProjLow + ProjRange)
ProjTargets == { TARGET_DATE, TARGET_DATE - Horizon + 10 }

RECURSIVE SortedDays(_)
SortedDays(D) ==
    IF D = {} THEN <<>>
    ELSE LET m == CHOOSE x \in D : \A y \in D : x <= y
         IN  <<m>> \o SortedDays(D \ {m})

ProjSeries ==
    UNION { { [k \in 1..Cardinality(D) |-> [date |-> SortedDays(D)[k], close |-> c[k]]] :
                c \in [1..Cardinality(D) -> ProjCloses] } :
            D \in { E \in SUBSET ProjDays : Cardinality(E) <= ProjMaxLen } }

InitProj ==
    /\ pc = "projection"
    /\ i = 1
    /\ stock_data_store = <<>>
    /\ errors = <<>>
    /\ warnings = 0
    /\ columns = <<>>
    /\ battle = <<>>
    /\ results = <<>>
    /\ trigger = "load"
    /\ cycles = 1
    /\ cache = NoCache
    /\ now = 0
    /\ projHist \in ProjSeries
    /\ projTarget \in ProjTargets
    /\ projResult = Zero
    /\ projDone = FALSE

Project ==
    /\ pc = "projection"
    /\ ~projDone
    /\ projResult' = get_projection(projHist, projTarget)
    /\ projDone' = TRUE
    /\ UNCHANGED <<projHist, projTarget>>
    /\ UNCHANGED appVars

NextProj == Project

ProjSpec == InitProj /\ [][NextProj]_vars

-----------------------------------------------------------------------------
(* Vocabulary of the properties *)

HasMatch(r) == "match_price" \in DOMAIN r

\* the script has gone past the display block of this cycle
CycleShown == pc \in {"button", "idle"}

PairwiseShown ==
    \/ columns # <<>>
    \/ battle # <<>>
    \/ \E k \in 1..Len(stock_data_store) : HasMatch(stock_data_store[k])

StoreOf(t) == { k \in 1..Len(stock_data_store) : stock_data_store[k].ticker = t }
ErrorsOf(t) == { k \in 1..Len(errors) : errors[k].ticker = t }

BaseKeys == {"ticker", "name", "start_price", "current_price", "prev_close",
             "total_gain_pct", "daily_change_amt", "daily_change_pct", "history"}
Base(r) == [f \in BaseKeys |-> r[f]]

\* a percentage change, from the two prices
PctChange(to, from) == RMul(Norm(to - from, from), Int2R(100))

\* the iteration's fetch returned a usable quote q > 0 over a non-empty series
Usable(res) ==
    /\ ~res.fetched.raised
    /\ Len(res.fetched.hist) >= 1
    /\ ~res.fetched.latest_price.none
    /\ res.fetched.latest_price.val > 0

-----------------------------------------------------------------------------
\* C1: the pairwise output (both match prices, both columns with their
\* projections, the battle verdict) is produced if and only if exactly two
\* instruments were appended to stock_data_store; with fewer, none of it is
\* produced and exactly one warning is emitted; no cycle ends showing a
\* column, a match price or a verdict for one instrument only.
C1_PairwiseOrWarning ==
    /\ PairwiseShown => Len(stock_data_store) = 2 /\ warnings = 0
    /\ warnings <= 1
    /\ Len(columns) <= 2 /\ Len(battle) <= 1
    /\ CycleShown =>
         IF Len(stock_data_store) = 2
         THEN /\ Len(columns) = 2
              /\ \A k \in 1..2 :
                    /\ HasMatch(stock_data_store[k])
                    /\ columns[k].ticker = STOCKS[k].ticker
                    /\ columns[k].match_price = FmtCents(stock_data_store[k].match_price)
                    /\ columns[k].projected_val =
                          get_projection(stock_data_store[k].history, TARGET_DATE)
              /\ Len(battle) = 1
              /\ warnings = 0
         ELSE /\ ~PairwiseShown
              /\ warnings = 1

\* a cycle ended with one instrument resolved and the other not
C1_Witness ==
    /\ pc = "idle"
    /\ Len(stock_data_store) = 1
    /\ warnings = 1
    /\ columns = <<>>

\* C2: an exception in one ticker's iteration leaves that ticker out of
\* stock_data_store, emits one error naming the ticker and the exception
\* text, and the loop still processes the other ticker, whose record (or
\* absence) is the one its own fetch result alone determines.
C2_FailureIsolated ==
    /\ \A k \in 1..Len(results) :
          LET res == results[k]
              own == LoopBody(STOCKS[k], res.fetched)
          IN  /\ res.index = k
              /\ res.ticker = STOCKS[k].ticker
              /\ res.out.raised =>
                    /\ StoreOf(res.ticker) = {}
                    /\ Cardinality(ErrorsOf(res.ticker)) = 1
                    /\ \A e \in ErrorsOf(res.ticker) : errors[e].text = res.out.text
                    /\ res.fetched.raised => res.out.text = res.fetched.text
              /\ ~res.out.raised => ErrorsOf(res.ticker) = {}
              /\ res.fetched.raised => res.out.raised
              /\ IF own.recs = <<>>
                 THEN StoreOf(res.ticker) = {}
                 ELSE /\ Cardinality(StoreOf(res.ticker)) = 1
                      /\ \A n \in StoreOf(res.ticker) :
                            Base(stock_data_store[n]) = own.recs[1]
    /\ pc # "fetch" => Len(results) = Len(STOCKS)
    /\ pc = "fetch" => Len(results) = i - 1

\* the first ticker raised and the second was still appended
C2_Witness ==
    /\ pc = "idle"
    /\ Len(results) = 2
    /\ results[1].out.raised
    /\ results[1].fetched.raised
    /\ StoreOf(STOCKS[2].ticker) # {}

\* C3: with a non-empty series and a quote q > 0 the instrument is appended
\* with current price q and previous close: the last close when there are at
\* least 2 samples and |q - last close| > 0.01, the second-to-last close when
\* there are at least 2 samples otherwise, and q (zero daily change) when
\* there is exactly 1 sample; no read outside the series happens.
C3_PrevCloseResolution ==
    \A k \in 1..Len(results) :
       LET res == results[k]
           h == res.fetched.hist
           n == Len(h)
           q == res.fetched.latest_price.val
       IN  Usable(res) =>
             /\ ~res.out.raised
             /\ Len(res.out.recs) = 1
             /\ res.out.recs[1].current_price = q
             /\ res.out.recs[1].history = h
             /\ n >= 2 =>
                   res.out.recs[1].prev_close =
                      IF Abs(q - h[n].close) > 1 THEN h[n].close ELSE h[n - 1].close
             /\ n = 1 =>
                   /\ res.out.recs[1].prev_close = q
                   /\ res.out.recs[1].daily_change_amt = 0
                   /\ res.out.recs[1].daily_change_pct = Zero
             /\ \E m \in StoreOf(res.ticker) :
                   Base(stock_data_store[m]) = res.out.recs[1]

\* a quote exactly 0.01 off the last close of a two-sample series: the
\* previous close is the second-to-last close
C3_Witness ==
    \E k \in 1..Len(results) :
       LET h == results[k].fetched.hist
       IN  /\ Usable(results[k])
           /\ Len(h) = 2
           /\ Abs(results[k].fetched.latest_price.val - h[2].close) = 1
           /\ Len(results[k].out.recs) = 1
           /\ results[k].out.recs[1].prev_close = h[1].close
           /\ h[1].close # h[2].close

\* C4: whenever a match price exists, both instruments are in the store with
\* their total_gain_pct = (current - baseline) / baseline * 100 of this cycle,
\* each match_price is the own baseline times (1 + the other's total_gain_pct
\* / 100), and start_price, current_price and total_gain_pct are what the
\* fetch loop stored.
C4_MatchPrice ==
    /\ (\E k \in 1..Len(stock_data_store) : HasMatch(stock_data_store[k])) =>
         /\ Len(stock_data_store) = 2
         /\ Len(results) = 2
         /\ pc \in {"render", "battle", "button", "idle"}
         /\ \A k \in 1..2 :
               LET self == stock_data_store[k]
                   o == 3 - k
                   other_gain ==
                      PctChange(results[o].fetched.latest_price.val, STOCKS[o].start_price)
               IN  /\ HasMatch(self)
                   /\ self.start_price = STOCKS[k].start_price
                   /\ self.current_price = results[k].fetched.latest_price.val
                   /\ self.total_gain_pct =
                         PctChange(self.current_price, self.start_price)
                   /\ self.other_ticker = STOCKS[o].ticker
                   /\ self.match_price =
                         RMul(Int2R(STOCKS[k].start_price),
                              RAdd(Int2R(1), RDiv(other_gain, Int2R(100))))
    /\ (pc \in {"render", "battle"} \/ (CycleShown /\ Len(stock_data_store) = 2)) =>
         \A k \in 1..Len(stock_data_store) : HasMatch(stock_data_store[k])

\* the comparison was produced for two instruments with different gains
C4_Witness ==
    /\ pc = "idle"
    /\ Len(stock_data_store) = 2
    /\ HasMatch(stock_data_store[1])
    /\ HasMatch(stock_data_store[2])
    /\ stock_data_store[1].total_gain_pct # stock_data_store[2].total_gain_pct
    /\ stock_data_store[1].match_price # Int2R(stock_data_store[1].current_price)

-----------------------------------------------------------------------------
(* The daily battle, stated from the two stored instruments *)

DailyPct(k) ==
    PctChange(stock_data_store[k].current_price, stock_data_store[k].prev_close)
DailyDiff == RSub(DailyPct(1), DailyPct(2))
PctOfTicker(t) == IF t = STOCKS[1].ticker THEN DailyPct(1) ELSE DailyPct(2)

\* C5: the battle report is one verdict (draw, first won, second won); when
\* the two daily_change_pct differ by more than the tolerance the winner is
\* the instrument with the strictly larger daily_change_pct and the margin is
\* the absolute difference (displayed to two decimals); the instrument with
\* the smaller daily_change_pct is never the winner.
C5_BattleVerdict ==
    /\ battle # <<>> =>
         /\ Len(battle) = 1
         /\ Len(stock_data_store) = 2
         /\ LET b == battle[1]
            IN  /\ \/ b.kind = "draw" /\ b.winner = "" /\ b.loser = ""
                   \/ b.kind = "won" /\ b.winner = STOCKS[1].ticker
                                     /\ b.loser = STOCKS[2].ticker
                   \/ b.kind = "won" /\ b.winner = STOCKS[2].ticker
                                     /\ b.loser = STOCKS[1].ticker
                /\ RLess(PctTolerance, RAbs(DailyDiff)) =>
                      /\ b.kind = "won"
                      /\ b.winner = IF RLess(DailyPct(2), DailyPct(1))
                                    THEN STOCKS[1].ticker ELSE STOCKS[2].ticker
                /\ b.kind = "won" =>
                      /\ RLess(PctOfTicker(b.loser), PctOfTicker(b.winner))
                      /\ b.margin = RAbs(DailyDiff)
                      /\ b.shown = FmtPct2(RAbs(DailyDiff))
                      /\ b.shown >= 1
    /\ (CycleShown /\ Len(stock_data_store) = 2) => Len(battle) = 1

\* the second instrument won by more than the tolerance
C5_Witness ==
    /\ Len(battle) = 1
    /\ battle[1].kind = "won"
    /\ battle[1].winner = STOCKS[2].ticker
    /\ RLess(PctTolerance, RAbs(DailyDiff))
    /\ DailyDiff[1] < 0

C7_ShortSeriesIsNoData ==
    \A k \in 1..Len(results) :
       (~results[k].fetched.raised /\ Len(results[k].fetched.hist) < 2) =>
           StoreOf(results[k].ticker) = {}

\* C7 as the code has it: an instrument whose series is empty is not appended,
\* raises nothing and does not stop the loop, so the cycle ends in the
\* warning; a series of exactly 1 sample with a quote q > 0 is appended, with
\* previous close q.
C7_EmptySeriesIsNoData ==
    /\ \A k \in 1..Len(results) :
          LET res == results[k]
          IN  /\ (~res.fetched.raised /\ Len(res.fetched.hist) = 0) =>
                    /\ StoreOf(res.ticker) = {}
                    /\ ErrorsOf(res.ticker) = {}
                    /\ ~res.out.raised
                    /\ pc \in {"fetch", "warn", "button", "idle"}
                    /\ CycleShown => warnings = 1 /\ ~PairwiseShown
              /\ (Usable(res) /\ Len(res.fetched.hist) = 1) =>
                    \E n \in StoreOf(res.ticker) :
                       stock_data_store[n].prev_close = stock_data_store[n].current_price
    /\ pc # "fetch" => Len(results) = Len(STOCKS)

\* a cycle ended in which a ticker came back with no samples and a positive
\* quote, while the other ticker was appended
C7_Witness ==
    /\ pc = "idle"
    /\ \E k \in 1..Len(results) :
          /\ ~results[k].fetched.raised
          /\ Len(results[k].fetched.hist) = 0
          /\ results[k].fetched.latest_price.val > 0
    /\ Len(stock_data_store) = 1

\* C8: get_projection gives 0.0 for an empty series, and no cycle displays
\* it: every stored instrument and every rendered column has a non-empty
\* series and a current price > 0; an instrument with an empty series, or
\* whose latest price fell back to 0.0, is not appended.
C8_SentinelNeverShown ==
    /\ get_projection(<<>>, TARGET_DATE) = Zero
    /\ \A k \in 1..Len(stock_data_store) :
          /\ Len(stock_data_store[k].history) >= 1
          /\ stock_data_store[k].current_price > 0
    /\ \A k \in 1..Len(columns) :
          /\ columns[k].history_len >= 1
          /\ columns[k].current_price > 0
          /\ columns[k].projected_val =
                get_projection(stock_data_store[k].history, TARGET_DATE)
    /\ \A k \in 1..Len(results) :
          (/\ ~results[k].fetched.raised
           /\ \/ Len(results[k].fetched.hist) = 0
              \/ results[k].fetched.latest_price.val <= 0) =>
             StoreOf(results[k].ticker) = {}

\* a cycle ended in which fast_info failed over an empty series (latest price
\* 0.0) and nothing was rendered
C8_Witness ==
    /\ pc = "idle"
    /\ columns = <<>>
    /\ \E k \in 1..Len(results) :
          /\ ~results[k].fetched.raised
          /\ Len(results[k].fetched.hist) = 0
          /\ ~results[k].fetched.latest_price.none
          /\ results[k].fetched.latest_price.val = 0
          /\ results[k].served = "provider"

-----------------------------------------------------------------------------
(* Straight lines, for the projection *)

\* the closes lie on the line through the first two samples
OnLine(h) ==
    \A k \in 1..Len(h) :
       (h[k].close - h[1].close) * (h[2].date - h[1].date) =
       (h[2].close - h[1].close) * (h[k].date - h[1].date)

\* that line, m * ordinal + b, at ordinal t
LineAt(h, t) ==
    LET m == Norm(h[2].close - h[1].close, h[2].date - h[1].date)
        b == RSub(Int2R(h[1].close), RMul(m, Int2R(h[1].date)))
    IN  RAdd(RMul(m, Int2R(t)), b)

RisesOnePerDay(h) ==
    \A k \in 1..Len(h) : h[k].close - h[1].close = h[k].date - h[1].date

\* C9: for a series of at least 2 samples whose closes lie on a straight line
\* in the date ordinal, get_projection returns the line's value at the target
\* ordinal; for closes rising by 1 per calendar day and a target 10 days
\* after the last sample it returns last close + 10.
C9_ExactOnLine ==
    (projDone /\ Len(projHist) >= 2 /\ OnLine(projHist)) =>
       /\ projResult = LineAt(projHist, projTarget)
       /\ (RisesOnePerDay(projHist) /\ projTarget = projHist[Len(projHist)].date + 10) =>
             projResult = Int2R(projHist[Len(projHist)].close + 10)

\* three samples, with a gap, rising 1 per calendar day, projected 10 days on
C9_Witness ==
    /\ projDone
    /\ Len(projHist) = 3
    /\ projHist[3].date - projHist[1].date > 2
    /\ RisesOnePerDay(projHist)
    /\ projTarget = projHist[3].date + 10
    /\ projResult = Int2R(projHist[3].close + 10)

\* C10: in the cycle that st.rerun() starts after the cache was cleared, the
\* cache starts empty, every ticker is fetched from the provider, nothing is
\* served from the cache and the cache holds only what this cycle fetched;
\* a value is served from the cache only in another cycle, from an entry
\* younger than the time-to-live while that cycle runs.
C10_RefreshRefetches ==
    /\ (trigger = "rerun" /\ results = <<>>) => cache = NoCache
    /\ trigger = "rerun" =>
          /\ \A k \in 1..Len(results) : results[k].served = "provider"
          /\ \A t \in DOMAIN cache :
                \E k \in 1..Len(results) :
                   /\ results[k].ticker = t
                   /\ cache[t].value = results[k].fetched
          /\ pc # "fetch" => Len(results) = Len(STOCKS)
    /\ \A k \in 1..Len(results) :
          results[k].served = "cache" =>
             /\ trigger # "rerun"
             /\ results[k].ticker \in DOMAIN cache
             /\ cache[results[k].ticker].value = results[k].fetched
             /\ pc # "idle" => now - cache[results[k].ticker].stamp < TTL

\* the cycle after a refresh has ended, both tickers fetched anew
C10_Witness ==
    /\ trigger = "rerun"
    /\ pc = "idle"
    /\ Len(results) = 2
    /\ \A k \in 1..2 : results[k].served = "provider" /\ ~results[k].fetched.raised

====
